---------------------------- MODULE Spec2Model ----------------------------
(***************************************************************************)
(* Model of display.py, the sector performance dashboard.                  *)
(*                                                                         *)
(* A table (a pandas DataFrame) is a sequence of rows; a row is a record.  *)
(* Only the columns the program computes with are kept: ticker, date,      *)
(* stock_price, shrout, and after cleaning market_cap and beta (permno and *)
(* volume are carried by the program but never read after the download).   *)
(* A numeric cell is a record: Num(n) for the number n, NaN for pandas'    *)
(* missing float, None for Python's None in an object column.              *)
(***************************************************************************)
EXTENDS Integers, Sequences, FiniteSets, TLC

VARIABLES
    pc,         \* "start" | "loaded" | "serving": position of the module's top-level code
    csv,        \* CSV_FILE: NoFile, or File(rows)
    data,       \* the module-level table `data`
    fromCache,  \* whether this run's get_or_download_data took the cache branch
    calls,      \* external calls made by this run: [wrds |-> n, yf |-> n]
    lookup,     \* outcome of each yfinance lookup made by this run (ticker -> outcome)
    betas,      \* the table fetch_betas returned to clean_data in this run
    prev,       \* the previous run of the program: [ran, cached, clean]
    page,       \* "closed" | "open": whether a browser has loaded the layout
    sector,     \* value of sector-dropdown
    options,    \* options of ticker-dropdown
    selected,   \* value of ticker-dropdown: NoValue or a sequence of tickers
    pending,    \* callbacks the page has requested and that have not answered yet
    view,       \* the last update_dashboard call: its arguments and what it returned
    prunes      \* whether the installed Dash's dcc.Dropdown drops, on new options, the
                \* entries of its value that are not among them (2.1 and later do, 2.0 does not)

vars == <<pc, csv, data, fromCache, calls, lookup, betas, prev,
          page, sector, options, selected, pending, view, prunes>>

uiVars == <<page, sector, options, selected, pending, view, prunes>>

----------------------------------------------------------------------------
(* Cells *)

NaN == [na |-> "NaN", v |-> 0]
None == [na |-> "None", v |-> 0]
Num(n) == [na |-> "", v |-> n]
IsNull(x) == x.na # ""

----------------------------------------------------------------------------
(* Constants of the program *)

SECTOR_TICKERS ==
    [s \in {"Technology", "Healthcare", "Energy", "Finance", "Consumer Discretionary",
            "Consumer Staples", "Industrials", "Utilities", "Real Estate", "Materials"} |->
       CASE s = "Technology" -> <<"AAPL", "MSFT", "GOOG", "NVDA", "AMD", "ORCL", "CRM", "ADBE", "INTC", "HPQ">>
         [] s = "Healthcare" -> <<"JNJ", "PFE", "MRK", "LLY", "ABT", "TMO", "BMY", "AMGN", "CVS", "GILD">>
         [] s = "Energy" -> <<"XOM", "CVX", "BP", "TOT", "COP", "ENB", "EOG", "KMI", "SLB", "OXY">>
         [] s = "Finance" -> <<"JPM", "BAC", "C", "WFC", "GS", "MS", "SCHW", "AXP", "USB", "TD">>
         [] s = "Consumer Discretionary" -> <<"TSLA", "AMZN", "HD", "MCD", "NKE", "SBUX", "DIS", "BKNG", "LOW", "TGT">>
         [] s = "Consumer Staples" -> <<"PG", "KO", "PEP", "WMT", "COST", "MDLZ", "CL", "KHC", "KR", "TAP">>
         [] s = "Industrials" -> <<"MMM", "HON", "GE", "BA", "CAT", "RTX", "LMT", "DE", "UPS", "FDX">>
         [] s = "Utilities" -> <<"NEE", "DUK", "SO", "AEP", "EXC", "SRE", "D", "PEG", "ED", "XEL">>
         [] s = "Real Estate" -> <<"AMT", "PLD", "CCI", "EQIX", "SPG", "PSA", "O", "WELL", "VTR", "HST">>
         [] s = "Materials" -> <<"LIN", "APD", "SHW", "ECL", "NUE", "DOW", "DD", "FCX", "ALB", "CE">>]

\* SECTOR_TICKERS.keys(), in the dictionary's insertion order
SECTOR_KEYS ==
    <<"Technology", "Healthcare", "Energy", "Finance", "Consumer Discretionary",
      "Consumer Staples", "Industrials", "Utilities", "Real Estate", "Materials">>

----------------------------------------------------------------------------
(* Bounds of the model *)

MaxRows == 2

DataTickers == {"AAPL", "MSFT", "JNJ"}
Dates == {1, 2}
Prices == {NaN, Num(2)}
Shares == {NaN, Num(5)}
BetaOutcomes == {"fail", "b1"}
UISectors == {"Technology", "Healthcare"}

RawRows == [ticker : DataTickers, date : Dates, stock_price : Prices, shrout : Shares]

SeqsUpTo(S, n) == UNION {[1..k -> S] : k \in 0..n}

RawTables == SeqsUpTo(RawRows, MaxRows)

NoFile == [exists |-> FALSE, rows |-> <<>>]
File(rows) == [exists |-> TRUE, rows |-> rows]
NoValue == <<"no value">>
NoView == [error |-> "no call"]

Range(s) == {s[i] : i \in 1..Len(s)}

----------------------------------------------------------------------------
(* The cache file *)

\* DataFrame.to_csv: a missing value is written as an empty field
ToCsvCell(x) == IF IsNull(x) THEN <<>> ELSE <<x.v>>

to_csv(t) ==
    [i \in 1..Len(t) |->
        [ticker |-> t[i].ticker, date |-> <<t[i].date>>,
         stock_price |-> ToCsvCell(t[i].stock_price), shrout |-> ToCsvCell(t[i].shrout)]]

\* pd.read_csv: an empty field is read as NaN; parse_dates turns the date text into a date
FromCsvCell(c) == IF c = <<>> THEN NaN ELSE Num(c[1])

read_csv(f) ==
    [i \in 1..Len(f) |->
        [ticker |-> f[i].ticker, date |-> f[i].date[1],
         stock_price |-> FromCsvCell(f[i].stock_price), shrout |-> FromCsvCell(f[i].shrout)]]

----------------------------------------------------------------------------
(* clean_data and fetch_betas *)

RECURSIVE DropDupLoop(_, _, _)
DropDupLoop(d, i, kept) ==
    IF i > Len(d) THEN kept
    ELSE IF \E j \in 1..Len(kept) : kept[j].ticker = d[i].ticker /\ kept[j].date = d[i].date
         THEN DropDupLoop(d, i + 1, kept)
         ELSE DropDupLoop(d, i + 1, Append(kept, d[i]))

\* mutant: the result of drop_duplicates is not assigned
drop_duplicates_unassigned(d) == d

\* data.drop_duplicates(subset=["ticker", "date"]): the first row of each pair is kept
drop_duplicates(d) == DropDupLoop(d, 1, <<>>)

IsComplete(r) == ~IsNull(r.stock_price) /\ ~IsNull(r.shrout)

\* data.dropna(subset=["stock_price", "shrout"])
dropna(d) == SelectSeq(d, IsComplete)

\* mutant: shrout's unit (thousands of shares) is forgotten
market_cap_no_scale(r) == Num(r.stock_price.v * r.shrout.v)

\* data["market_cap"] = data["stock_price"] * data["shrout"] * 1000
market_cap(r) == Num(r.stock_price.v * r.shrout.v * 1000)

with_market_cap(d) ==
    [i \in 1..Len(d) |->
        [ticker |-> d[i].ticker, date |-> d[i].date, stock_price |-> d[i].stock_price,
         shrout |-> d[i].shrout, market_cap |-> market_cap(d[i])]]

\* mutant: rows with missing values are dropped before the duplicates
prepare_dropna_first(d) == with_market_cap(drop_duplicates(dropna(d)))

\* lines 80-82 of clean_data
prepare(d) == with_market_cap(dropna(drop_duplicates(d)))

RECURSIVE UniqueLoop(_, _, _)
UniqueLoop(d, i, seen) ==
    IF i > Len(d) THEN seen
    ELSE IF d[i].ticker \in Range(seen)
         THEN UniqueLoop(d, i + 1, seen)
         ELSE UniqueLoop(d, i + 1, Append(seen, d[i].ticker))

\* data["ticker"].unique(): the distinct tickers in order of first appearance
unique_tickers(d) == UniqueLoop(d, 1, <<>>)

\* beta_values[ticker] = beta on a dict kept as a sequence of entries in insertion order
DictSet(dict, k, val) ==
    IF \E j \in 1..Len(dict) : dict[j].ticker = k
    THEN [j \in 1..Len(dict) |-> IF dict[j].ticker = k THEN [ticker |-> k, beta |-> val] ELSE dict[j]]
    ELSE Append(dict, [ticker |-> k, beta |-> val])

\* yf.Ticker(ticker).info.get("beta", None), or the except branch: both leave None
LookupValue(outcome) ==
    CASE outcome = "fail" -> None
      [] outcome = "nobeta" -> None
      [] outcome = "b1" -> Num(1)

RECURSIVE FetchLoop(_, _, _, _)
FetchLoop(tickers, svc, i, beta_values) ==
    IF i > Len(tickers) THEN beta_values
    ELSE FetchLoop(tickers, svc, i + 1, DictSet(beta_values, tickers[i], LookupValue(svc[tickers[i]])))

\* pd.DataFrame.from_dict(beta_values, orient='index', columns=['beta']): a column that
\* holds a number becomes a float column (None is stored as NaN); a column of None
\* only stays an object column holding None
FromDict(beta_values) ==
    IF \A j \in 1..Len(beta_values) : beta_values[j].beta = None
    THEN beta_values
    ELSE [j \in 1..Len(beta_values) |->
            IF beta_values[j].beta = None
            THEN [ticker |-> beta_values[j].ticker, beta |-> NaN]
            ELSE beta_values[j]]

RECURSIVE FetchLoopAbort(_, _, _, _)
FetchLoopAbort(tickers, svc, i, beta_values) ==
    IF i > Len(tickers) THEN beta_values
    ELSE IF svc[tickers[i]] = "fail"
         THEN DictSet(beta_values, tickers[i], None)
         ELSE FetchLoopAbort(tickers, svc, i + 1,
                             DictSet(beta_values, tickers[i], LookupValue(svc[tickers[i]])))

\* mutant: the try encloses the loop, so the first failure ends it
fetch_betas_try_around_loop(tickers, svc) == FromDict(FetchLoopAbort(tickers, svc, 1, <<>>))

fetch_betas(tickers, svc) == FromDict(FetchLoop(tickers, svc, 1, <<>>))

RECURSIVE MergeLoop(_, _, _, _)
MergeLoop(left, right, i, out) ==
    IF i > Len(left) THEN out
    ELSE LET SameTicker(b) == b.ticker = left[i].ticker
             matches == SelectSeq(right, SameTicker)
             Joined(b) == [ticker |-> left[i].ticker, date |-> left[i].date,
                           stock_price |-> left[i].stock_price, shrout |-> left[i].shrout,
                           market_cap |-> left[i].market_cap, beta |-> b]
         IN IF matches = <<>>
            THEN MergeLoop(left, right, i + 1, Append(out, Joined(NaN)))
            ELSE MergeLoop(left, right, i + 1,
                           out \o [j \in 1..Len(matches) |-> Joined(matches[j].beta)])

\* pd.merge(data, betas, on="ticker", how="left")
merge(left, right) == MergeLoop(left, right, 1, <<>>)

clean_data(d, svc) ==
    LET p == prepare(d)
        tickers == unique_tickers(p)
    IN merge(p, fetch_betas(tickers, svc))

----------------------------------------------------------------------------
(* update_ticker_dropdown and update_dashboard *)

\* mutant: the options are those of the layout's default sector
update_ticker_dropdown_default(sec) == SECTOR_TICKERS[SECTOR_KEYS[1]]

\* the option list; each option's label and value are the ticker
update_ticker_dropdown(sec) == SECTOR_TICKERS[sec]

RECURSIVE GCD(_, _)
GCD(a, b) == IF b = 0 THEN a ELSE GCD(b, a % b)

\* an exact fraction, reduced; averages are kept exact instead of as floats
Frac(n, d) == LET g == GCD(n, d) IN [na |-> "", v |-> n \div g, den |-> d \div g]
NaNFrac == [na |-> "NaN", v |-> 0, den |-> 1]

RECURSIVE SumLoop(_, _, _)
SumLoop(cells, i, acc) ==
    IF i > Len(cells) THEN acc
    ELSE SumLoop(cells, i + 1, [n |-> acc.n * cells[i].den + cells[i].v * acc.d, d |-> acc.d * cells[i].den])

NotNull(x) == ~IsNull(x)

\* Series.mean(): missing values are skipped; the mean of nothing is NaN
Mean(cells) ==
    LET present == SelectSeq(cells, NotNull)
        total == SumLoop(present, 1, [n |-> 0, d |-> 1])
    IN IF present = <<>> THEN NaNFrac ELSE Frac(total.n, total.d * Len(present))

AsFrac(x) == [na |-> x.na, v |-> x.v, den |-> 1]

RECURSIVE KeysLoop(_, _, _)
KeysLoop(d, i, seen) ==
    IF i > Len(d) THEN seen
    ELSE IF <<d[i].ticker, d[i].date>> \in Range(seen)
         THEN KeysLoop(d, i + 1, seen)
         ELSE KeysLoop(d, i + 1, Append(seen, <<d[i].ticker, d[i].date>>))

\* groupby(['ticker', 'date']).agg({'stock_price': 'mean', 'market_cap': 'mean'}).reset_index():
\* one row per pair present (the rows' order plays no part in what follows)
groupby_mean(d) ==
    LET keys == KeysLoop(d, 1, <<>>)
    IN [k \in 1..Len(keys) |->
          LET InGroup(r) == r.ticker = keys[k][1] /\ r.date = keys[k][2]
              rows == SelectSeq(d, InGroup)
          IN [ticker |-> keys[k][1], date |-> keys[k][2],
              stock_price |-> Mean([i \in 1..Len(rows) |-> AsFrac(rows[i].stock_price)]),
              market_cap |-> Mean([i \in 1..Len(rows) |-> AsFrac(rows[i].market_cap)])]]

EmptyFigure == [kind |-> "empty dict", traces |-> <<>>]

\* px.line(..., x="date", y="stock_price", color="ticker"): one trace per ticker present
line_figure(g) ==
    [kind |-> "line",
     traces |-> [t \in {g[i].ticker : i \in 1..Len(g)} |->
                   {<<g[i].date, g[i].stock_price>> : i \in {j \in 1..Len(g) : g[j].ticker = t}}]]

\* px.bar(selected_data.groupby("ticker").mean().reset_index(), x="ticker", y="market_cap"):
\* one bar per ticker present
bar_figure(g) ==
    [kind |-> "bar",
     traces |-> [t \in {g[i].ticker : i \in 1..Len(g)} |->
                   LET OfTicker(r) == r.ticker = t
                       rows == SelectSeq(g, OfTicker)
                   IN Mean([i \in 1..Len(rows) |-> rows[i].market_cap])]]

RECURSIVE BetaListLoop(_, _, _, _)
BetaListLoop(sector_data, sel, i, out) ==
    IF i > Len(sel) THEN [error |-> "none", rows |-> out]
    ELSE LET IsTicker(r) == r.ticker = sel[i]
             rows == SelectSeq(sector_data, IsTicker)
         IN IF rows = <<>>
            THEN [error |-> "IndexError", rows |-> <<>>]       \* .iloc[0] of an empty column
            ELSE IF rows[1].beta = None
            THEN [error |-> "TypeError", rows |-> <<>>]        \* f"{None:.2f}"
            ELSE BetaListLoop(sector_data, sel, i + 1,
                              Append(out, [ticker |-> sel[i], beta |-> rows[1].beta]))

\* the callback ends in an exception: nothing is returned
Raised(e) == [error |-> e]

\* the body of update_dashboard; no_selection is the test `not selected_tickers`
dashboard(d, sec, sel, no_selection) ==
    LET sector_tickers == SECTOR_TICKERS[sec]
        InSector(r) == r.ticker \in Range(sector_tickers)
        sector_data == SelectSeq(d, InSector)
        averages == [market_cap |-> Mean([i \in 1..Len(sector_data) |-> AsFrac(sector_data[i].market_cap)]),
                     stock_price |-> Mean([i \in 1..Len(sector_data) |-> AsFrac(sector_data[i].stock_price)]),
                     beta |-> Mean([i \in 1..Len(sector_data) |-> AsFrac(sector_data[i].beta)])]
    IN IF no_selection
       THEN [error |-> "none", averages |-> averages, trend_fig |-> EmptyFigure,
             comparison_fig |-> EmptyFigure, beta_list |-> <<>>]
       ELSE LET IsSelected(r) == r.ticker \in Range(sel)
                selected_data == groupby_mean(SelectSeq(sector_data, IsSelected))
                beta_list == BetaListLoop(sector_data, sel, 1, <<>>)
            IN IF beta_list.error # "none"
               THEN Raised(beta_list.error)
               ELSE [error |-> "none", averages |-> averages,
                     trend_fig |-> line_figure(selected_data),
                     comparison_fig |-> bar_figure(selected_data),
                     beta_list |-> beta_list.rows]

\* mutant: the test is `selected_tickers is None`, which an empty list passes
update_dashboard_none_only(d, sec, sel) == dashboard(d, sec, sel, sel = NoValue)

\* `not selected_tickers` holds of None and of the empty list
update_dashboard(d, sec, sel) == dashboard(d, sec, sel, sel = NoValue \/ sel = <<>>)

----------------------------------------------------------------------------
(* The program: module start-up, then the callbacks Dash invokes *)

NoCalls == [wrds |-> 0, yf |-> 0]
NoPrev == [ran |-> FALSE, cached |-> FALSE, clean |-> <<>>]
NonePending == [options |-> FALSE, dashboard |-> FALSE]
BothPending == [options |-> TRUE, dashboard |-> TRUE]

\* the process has just been started, for the first time: no cache file yet
InitStart ==
    /\ pc = "start"
    /\ csv = NoFile
    /\ data = <<>>
    /\ fromCache = FALSE
    /\ calls = NoCalls
    /\ lookup = <<>>
    /\ betas = <<>>
    /\ prev = NoPrev
    /\ page = "closed"
    /\ sector = SECTOR_KEYS[1]
    /\ options = <<>>
    /\ selected = NoValue
    /\ pending = NonePending
    /\ view = NoView
    /\ prunes \in BOOLEAN

\* mutant: the existence test is missing and every run queries the warehouse
GetOrDownloadDataAlways ==
    /\ pc = "start"
    /\ \E w \in RawTables :
        /\ data' = w
        /\ csv' = File(to_csv(w))
        /\ fromCache' = FALSE
        /\ calls' = [calls EXCEPT !.wrds = @ + 2]
    /\ pc' = "loaded"
    /\ UNCHANGED <<lookup, betas, prev, uiVars>>

\* data = get_or_download_data(): the cache file if it exists, else the two warehouse
\* queries (the rows they return are the environment's choice) and the file is written
GetOrDownloadData ==
    /\ pc = "start"
    /\ IF csv.exists
       THEN /\ data' = read_csv(csv.rows)
            /\ fromCache' = TRUE
            /\ UNCHANGED <<csv, calls>>
       ELSE \E w \in RawTables :
            /\ data' = w
            /\ csv' = File(to_csv(w))
            /\ fromCache' = FALSE
            /\ calls' = [calls EXCEPT !.wrds = @ + 2]
    /\ pc' = "loaded"
    /\ UNCHANGED <<lookup, betas, prev, uiVars>>

\* data = clean_data(data): each lookup's outcome is the environment's choice
CleanData ==
    /\ pc = "loaded"
    /\ LET tickers == unique_tickers(prepare(data))
       IN \E svc \in [Range(tickers) -> BetaOutcomes] :
            /\ data' = clean_data(data, svc)
            /\ betas' = fetch_betas(tickers, svc)
            /\ lookup' = svc
            /\ calls' = [calls EXCEPT !.yf = @ + Len(tickers)]
    /\ pc' = "serving"
    /\ UNCHANGED <<csv, fromCache, prev, uiVars>>

DashboardCall(sec, sel) == [sector |-> sec, selected |-> sel, out |-> update_dashboard(data, sec, sel)]

(***************************************************************************)
(* The two callbacks are registered separately (lines 125-128, 132-138);   *)
(* no Output of one is an Input of the other, so the page requests each on *)
(* its own and they answer in either order.  A change of an Input requests *)
(* every callback that has it as Input; a request carries the Inputs'      *)
(* values, and a request still unanswered when its Inputs change again is  *)
(* superseded by the new one, so an answer is always computed from the     *)
(* values the page holds.                                                  *)
(*                                                                         *)
(* The source imports `from dash import dcc, html` and calls               *)
(* app.run_server, so it runs on any Dash from 2.0 up to, not including,   *)
(* 3.0, and pins none.  The releases differ in what a multi dcc.Dropdown   *)
(* does with its value when it receives new options: 2.0 keeps the value,  *)
(* 2.1 and later remove from it every entry that is not among the new      *)
(* options and set the shortened value, which is a change of               *)
(* ticker-dropdown.value like one the user makes.  Which of the two the    *)
(* program runs on is fixed when it starts (prunes).                       *)
(***************************************************************************)
\* a browser loads the layout: both callbacks are requested with the layout's values
PageLoad ==
    /\ pc = "serving"
    /\ page = "closed"
    /\ page' = "open"
    /\ pending' = BothPending
    /\ UNCHANGED <<pc, csv, data, fromCache, calls, lookup, betas, prev,
                   sector, options, selected, view, prunes>>

\* sector-dropdown.value changes: it is an Input of both callbacks
SelectSector(s) ==
    /\ page = "open"
    /\ s # sector
    /\ sector' = s
    /\ pending' = BothPending
    /\ UNCHANGED <<pc, csv, data, fromCache, calls, lookup, betas, prev,
                   page, options, selected, view, prunes>>

\* what the user may pick in ticker-dropdown: among the options shown, here the first
\* two, picked in the order shown
Pickable(opts) == SubSeq(opts, 1, IF Len(opts) < 2 THEN Len(opts) ELSE 2)

Selections(opts) ==
    LET p == Pickable(opts)
    IN {<<>>} \cup {<<p[i]>> : i \in DOMAIN p}
       \cup {<<p[x[1]], p[x[2]]>> : x \in {y \in (DOMAIN p) \X (DOMAIN p) : y[1] < y[2]}}

\* ticker-dropdown.value changes (the user picks among the options shown): it is an
\* Input of update_dashboard only
SelectTickers(sel) ==
    /\ page = "open"
    /\ sel # selected
    /\ selected' = sel
    /\ pending' = [pending EXCEPT !.dashboard = TRUE]
    /\ UNCHANGED <<pc, csv, data, fromCache, calls, lookup, betas, prev,
                   page, sector, options, view, prunes>>

\* ticker-dropdown (multi=True) receives new options: a value that is not set stays
\* unset; where the component prunes, the entries that are not option values are removed
ValueOnNewOptions(value, opts, pruning) ==
    IF value = NoValue \/ ~pruning
    THEN value
    ELSE LET IsOption(t) == t \in Range(opts)
         IN SelectSeq(value, IsOption)

\* update_ticker_dropdown(sector) answers: its only Output is ticker-dropdown.options.
\* The component then settles its value against the options received; a value it
\* changes requests update_dashboard, of which ticker-dropdown.value is an Input
UpdateTickerDropdown ==
    /\ pending.options
    /\ LET opts == update_ticker_dropdown(sector)
           value == ValueOnNewOptions(selected, opts, prunes)
       IN /\ options' = opts
          /\ selected' = value
          /\ pending' = [options |-> FALSE, dashboard |-> pending.dashboard \/ value # selected]
    /\ UNCHANGED <<pc, csv, data, fromCache, calls, lookup, betas, prev,
                   page, sector, view, prunes>>

\* mutant: update_dashboard filters the module's table in place
UpdateDashboardInPlace ==
    /\ pending.dashboard
    /\ view' = DashboardCall(sector, selected)
    /\ pending' = [pending EXCEPT !.dashboard = FALSE]
    /\ LET InSector(r) == r.ticker \in Range(SECTOR_TICKERS[sector])
       IN data' = SelectSeq(data, InSector)
    /\ UNCHANGED <<pc, csv, fromCache, calls, lookup, betas, prev,
                   page, sector, options, selected, prunes>>

\* update_dashboard(sector, selected_tickers) answers
UpdateDashboard ==
    /\ pending.dashboard
    /\ view' = DashboardCall(sector, selected)
    /\ pending' = [pending EXCEPT !.dashboard = FALSE]
    /\ UNCHANGED <<pc, csv, data, fromCache, calls, lookup, betas, prev,
                   page, sector, options, selected, prunes>>

\* the process ends and the program is started again; the cache file stays
Restart ==
    /\ pc = "serving"
    /\ prev' = [ran |-> TRUE, cached |-> fromCache, clean |-> data]
    /\ pc' = "start"
    /\ data' = <<>>
    /\ fromCache' = FALSE
    /\ calls' = NoCalls
    /\ lookup' = <<>>
    /\ betas' = <<>>
    /\ page' = "closed"
    /\ sector' = SECTOR_KEYS[1]
    /\ options' = <<>>
    /\ selected' = NoValue
    /\ pending' = NonePending
    /\ view' = NoView
    /\ UNCHANGED <<csv, prunes>>

NextRerun ==
    \/ GetOrDownloadData
    \/ CleanData
    \/ Restart

\* start-up and re-runs of the program, without the page
SpecRerun == InitStart /\ [][NextRerun]_vars

\* tables whose rows are complete and distinct in (ticker, date): lines 80-81 keep them whole
ServedRawTables == {w \in RawTables : dropna(drop_duplicates(w)) = w}

\* The web server starts (line 196) once lines 90-91 have run.  The callbacks read
\* `data` only, so the states drawn are those of a first run whose warehouse rows were
\* complete and distinct: every table clean_data can return is the cleaned table of
\* such rows (ServedTablesCovered, checked under SpecRerun).
Init ==
    \E w \in ServedRawTables :
        LET tickers == unique_tickers(prepare(w))
        IN \E svc \in [Range(tickers) -> BetaOutcomes] :
            /\ pc = "serving"
            /\ csv = File(to_csv(w))
            /\ data = clean_data(w, svc)
            /\ fromCache = FALSE
            /\ calls = [wrds |-> 2, yf |-> Len(tickers)]
            /\ lookup = svc
            /\ betas = fetch_betas(tickers, svc)
            /\ prev = NoPrev
            /\ page = "closed"
            /\ sector = SECTOR_KEYS[1]
            /\ options = <<>>
            /\ selected = NoValue
            /\ pending = NonePending
            /\ view = NoView
            /\ prunes \in BOOLEAN

Next ==
    \/ PageLoad
    \/ \E s \in UISectors : SelectSector(s)
    \/ \E sel \in Selections(options) : SelectTickers(sel)
    \/ UpdateTickerDropdown
    \/ UpdateDashboard

\* the running server: page loads, selections and the callbacks' answers
Spec == Init /\ [][Next]_vars

----------------------------------------------------------------------------
(* Properties *)

\* the table clean_data received in this run (what the cache file holds, read back)
RawInput == read_csv(csv.rows)

WithoutBeta(d) ==
    [i \in 1..Len(d) |->
        [ticker |-> d[i].ticker, date |-> d[i].date, stock_price |-> d[i].stock_price,
         shrout |-> d[i].shrout, market_cap |-> d[i].market_cap]]

TickersOf(d) == {d[i].ticker : i \in 1..Len(d)}

RECURSIVE IntSum(_)
IntSum(cells) == IF cells = <<>> THEN 0 ELSE Head(cells).v + IntSum(Tail(cells))

\* f is the mean of the non-missing cells, NaN when there is none
IsMeanOf(f, cells) ==
    LET present == SelectSeq(cells, NotNull)
    IN IF present = <<>>
       THEN f.na = "NaN"
       ELSE f.na = "" /\ f.den > 0 /\ f.v * Len(present) = IntSum(present) * f.den

Column(d, c) == [i \in 1..Len(d) |-> d[i][c]]

SectorRows(sec) ==
    LET InSector(r) == r.ticker \in Range(SECTOR_TICKERS[sec])
    IN SelectSeq(data, InSector)

RawColumns(d) ==
    [i \in 1..Len(d) |->
        [ticker |-> d[i].ticker, date |-> d[i].date, stock_price |-> d[i].stock_price,
         shrout |-> d[i].shrout]]

\* every table start-up can leave in `data` is the cleaned table of complete, distinct rows
ServedTablesCovered ==
    pc = "serving" =>
        /\ RawColumns(data) \in ServedRawTables
        /\ clean_data(RawColumns(data), lookup) = data
        /\ fetch_betas(unique_tickers(prepare(RawColumns(data))), lookup) = betas

\* where the dropdown prunes its value, a page with no request outstanding holds a
\* selection within its sector, and the last update_dashboard call was made with it
PrunedSelectionSettles ==
    (prunes /\ page = "open" /\ pending = NonePending) =>
        /\ view # NoView /\ view.sector = sector /\ view.selected = selected
        /\ selected # NoValue => Range(selected) \subseteq Range(SECTOR_TICKERS[sector])

\* C1 as stated: a run that finds the cache file makes no external call at all, neither
\* to the warehouse nor to the beta lookup, and its cleaned table is the previous run's.
C1_NoNetworkCallOnRerun ==
    (pc = "serving" /\ prev.ran) =>
        /\ calls = NoCalls
        /\ data = prev.clean

\* C1 amended: a run that finds the cache file makes no warehouse call and cleans the
\* table read from the file; it still makes one beta lookup per distinct ticker of the
\* retained rows, and its cleaned table agrees with that of the previous run from the
\* same file in every column but beta.
C1_NoWarehouseCallOnRerun ==
    /\ (pc = "loaded" /\ prev.ran) => (fromCache /\ calls = NoCalls /\ data = read_csv(csv.rows))
    /\ (pc = "serving" /\ prev.ran) =>
        /\ fromCache
        /\ calls.wrds = 0
        /\ calls.yf = Cardinality(TickersOf(data))
        /\ prev.cached => WithoutBeta(data) = WithoutBeta(prev.clean)

C1_Witness ==
    /\ pc = "serving" /\ prev.ran /\ prev.cached /\ fromCache
    /\ calls.yf = 2
    /\ data # prev.clean

\* C2: the table clean_data returns holds at most one row per (ticker, date) pair.
C2_OneRowPerTickerDate ==
    pc = "serving" =>
        \A i, j \in 1..Len(data) :
            (data[i].ticker = data[j].ticker /\ data[i].date = data[j].date) => i = j

C2_Witness ==
    /\ pc = "serving"
    /\ Len(RawInput) = 2
    /\ RawInput[1].ticker = RawInput[2].ticker /\ RawInput[1].date = RawInput[2].date
    /\ Len(data) = 1

\* C3: every retained row has a price and a share count, and its market_cap is
\* stock_price * shrout * 1000.
C3_MarketCapOfRetainedRows ==
    pc = "serving" =>
        \A i \in 1..Len(data) :
            /\ data[i].stock_price.na = ""
            /\ data[i].shrout.na = ""
            /\ data[i].market_cap.na = ""
            /\ data[i].market_cap.v = data[i].stock_price.v * data[i].shrout.v * 1000

C3_Witness ==
    /\ pc = "serving"
    /\ Len(RawInput) = 2 /\ Len(data) = 1
    /\ \E i \in 1..2 : IsNull(RawInput[i].shrout) /\ ~IsNull(RawInput[i].stock_price)
    /\ data[1].market_cap = Num(10000)

\* C4: a failed lookup affects its own ticker only: fetch_betas returns one entry per
\* distinct ticker, every prepared row is in the cleaned table, rows of a ticker whose
\* lookup failed have a missing beta and rows of the others have the beta looked up.
C4_LookupFailureIsolated ==
    pc = "serving" =>
        /\ Len(betas) = Cardinality(TickersOf(prepare(RawInput)))
        /\ {betas[i].ticker : i \in 1..Len(betas)} = TickersOf(prepare(RawInput))
        /\ DOMAIN lookup = TickersOf(prepare(RawInput))
        /\ WithoutBeta(data) = prepare(RawInput)
        /\ \A i \in 1..Len(data) :
              /\ lookup[data[i].ticker] = "fail" => IsNull(data[i].beta)
              /\ lookup[data[i].ticker] = "b1" => data[i].beta = Num(1)

C4_Witness ==
    /\ pc = "serving"
    /\ Len(data) = 2
    /\ lookup[data[1].ticker] = "fail" /\ IsNull(data[1].beta)
    /\ data[2].ticker # data[1].ticker /\ data[2].beta = Num(1)

\* C5: called with no ticker selected (no value, or an empty list), update_dashboard
\* returns the sector's averages and two empty figures and raises nothing.
C5_NoSelectionGivesAveragesAndEmptyFigures ==
    (view # NoView /\ (view.selected = NoValue \/ view.selected = <<>>)) =>
        /\ view.out.error = "none"
        /\ view.out.trend_fig = EmptyFigure
        /\ view.out.comparison_fig = EmptyFigure
        /\ IsMeanOf(view.out.averages.market_cap, Column(SectorRows(view.sector), "market_cap"))
        /\ IsMeanOf(view.out.averages.stock_price, Column(SectorRows(view.sector), "stock_price"))
        /\ IsMeanOf(view.out.averages.beta, Column(SectorRows(view.sector), "beta"))

C5_Witness ==
    /\ view # NoView
    /\ ~pending.dashboard
    /\ view.selected = <<>>
    /\ Len(SectorRows(view.sector)) = 2
    /\ view.out.averages.market_cap = Frac(10000, 1)
    /\ view.out.averages.beta = Frac(1, 1)

\* C6 as stated: with a non-empty selection of members of the sector, the trend chart
\* has one series and the bar chart one bar per selected ticker, whatever the table holds.
C6_OneSeriesAndBarPerSelectedTicker ==
    (/\ view # NoView
     /\ view.selected # NoValue
     /\ view.selected # <<>>
     /\ Range(view.selected) \subseteq Range(SECTOR_TICKERS[view.sector])) =>
        /\ view.out.error = "none"
        /\ Cardinality(DOMAIN view.out.trend_fig.traces) = Len(view.selected)
        /\ Cardinality(DOMAIN view.out.comparison_fig.traces) = Len(view.selected)

\* C7: until a sector is selected the sector is the first key of SECTOR_TICKERS, and
\* whenever update_ticker_dropdown has answered the latest sector selection (or the page
\* load) the ticker options are exactly the members of the selected sector, in number
\* and in content.
C7_OptionsAreSectorMembers ==
    /\ page = "closed" => (sector = "Technology" /\ options = <<>>)
    /\ (page = "open" /\ ~pending.options) =>
        /\ Len(options) = Len(SECTOR_TICKERS[sector])
        /\ Range(options) = Range(SECTOR_TICKERS[sector])
        /\ Cardinality(Range(options)) = Len(options)

C7_Witness ==
    /\ page = "open"
    /\ ~pending.options
    /\ sector = "Healthcare"
    /\ options[1] = "JNJ" /\ Len(options) = 10

\* C8: once cleaned, the module's table is never changed by a callback.
C8_TableNeverMutated == [][pc = "serving" => data' = data]_vars

C8_Witness ==
    /\ page = "open"
    /\ pending = NonePending
    /\ sector = "Healthcare"
    /\ view.sector = "Healthcare"
    /\ options = SECTOR_TICKERS["Healthcare"]
    /\ Len(data) = 2
    /\ view.selected # NoValue /\ view.selected # <<>>
    /\ view.out.error = "none"

\* C9 as stated: the tickers update_dashboard is called with are always members of the
\* sector it is called with, so each of them has rows in the sector's part of the table.
C9_SelectionWithinSector ==
    (view # NoView /\ view.selected # NoValue) =>
        Range(view.selected) \subseteq Range(SECTOR_TICKERS[view.sector])

\* C10: duplicates go before missing values: a (ticker, date) pair has a row in the
\* cleaned table exactly when its first input row has a price and a share count, and
\* that row is the first one.
C10_FirstRowDecides ==
    pc = "serving" =>
        \A t \in DataTickers, dt \in Dates :
            LET OfPair(r) == r.ticker = t /\ r.date = dt
                input == SelectSeq(RawInput, OfPair)
                kept == SelectSeq(data, OfPair)
            IN /\ (kept # <<>>) <=>
                    (input # <<>> /\ input[1].stock_price.na = "" /\ input[1].shrout.na = "")
               /\ kept # <<>> =>
                    (kept[1].stock_price = input[1].stock_price /\ kept[1].shrout = input[1].shrout)

C10_Witness ==
    /\ pc = "serving"
    /\ Len(RawInput) = 2
    /\ RawInput[1].ticker = RawInput[2].ticker /\ RawInput[1].date = RawInput[2].date
    /\ IsNull(RawInput[1].stock_price)
    /\ ~IsNull(RawInput[2].stock_price) /\ ~IsNull(RawInput[2].shrout)
    /\ data = <<>>

============================================================================
